---- MODULE Spec2Model ----
(***************************************************************************)
(* Model of the GeneExt comparison tools:                                  *)
(*   compare_geneext_modes.py            - the regression harness          *)
(*     (run_command, compare_files, cleanup, main)                         *)
(*   workflows/ourGeneExtensionComparison.py - the extension analyzer      *)
(*     (load_genes, main)                                                  *)
(* The external pipeline geneext.py and the annotation parser are opaque   *)
(* collaborators: their results are nondeterministic choices.              *)
(***************************************************************************)
EXTENDS Integers, Sequences, FiniteSets, TLC

(***************************************************************************)
(* Bounds                                                                  *)
(***************************************************************************)
\* longest file (in lines) an output of the pipeline may have in the harness
HarnessLines == 1
\* longest file (in lines) with arbitrary line terminators given to compare_files
MaxLen == 2
\* longest file (in lines) with "\n" terminators only given to compare_files
MaxLong == 7

(***************************************************************************)
(* Files.  A file's content is a sequence of raw lines <<text, term>>:     *)
(* a non-empty text without line breaks and the terminator that follows    *)
(* it on disk.  "NONE" (no terminator) is possible on the last line only.  *)
(***************************************************************************)
Texts == {"a", "b"}
Terms == {"LF", "CRLF", "CR", "NONE"}
RawLines == Texts \X Terms

WellFormed(c) == \A i \in 1..Len(c) : c[i][2] = "NONE" => i = Len(c)

SeqsUpTo(S, n) == UNION {[1..k -> S] : k \in 0..n}

\* a directory entry: kind is "absent", "dir" or "file"
Absent == [kind |-> "absent", data |-> <<>>]
Dir == [kind |-> "dir", data |-> <<>>]
File(c) == [kind |-> "file", data |-> c]

exists(e) == e.kind # "absent"
isdir(e) == e.kind = "dir"

(***************************************************************************)
(* compare_files                                                           *)
(***************************************************************************)
\* f.readlines() on a file opened with open(path, 'r'): text mode with
\* universal newlines, every terminator "\n", "\r\n", "\r" is read as "\n"
readlines(c) ==
  [i \in 1..Len(c) |-> <<c[i][1], IF c[i][2] = "NONE" THEN "" ELSE "\n">>]

\* str.strip() of a line that was read: the terminator goes, the text stays
strip(l) == l[1]

\* the difference count at which compare_files stops
MaxDiffs == 5

\* CompareLoop stopping one difference too late
RECURSIVE CompareLoop_late(_, _, _, _, _)
CompareLoop_late(lines1, lines2, i, diffs, out) ==
  IF i > Len(lines1) \/ i > Len(lines2)
  THEN [ret |-> (diffs = 0), raised |-> FALSE, out |-> out]
  ELSE IF lines1[i] # lines2[i]
       THEN LET out2 == out \o << <<"Difference at line", i>>,
                                  <<"Ref:", strip(lines1[i])>>,
                                  <<"Test:", strip(lines2[i])>> >>
            IN IF diffs + 1 > MaxDiffs
               THEN [ret |-> FALSE, raised |-> FALSE,
                     out |-> Append(out2, <<"... and more differences.">>)]
               ELSE CompareLoop_late(lines1, lines2, i + 1, diffs + 1, out2)
       ELSE CompareLoop_late(lines1, lines2, i + 1, diffs, out)

RECURSIVE CompareLoop(_, _, _, _, _)
CompareLoop(lines1, lines2, i, diffs, out) ==
  IF i > Len(lines1) \/ i > Len(lines2)
  THEN [ret |-> (diffs = 0), raised |-> FALSE, out |-> out]
  ELSE IF lines1[i] # lines2[i]
       THEN LET out2 == out \o << <<"Difference at line", i>>,
                                  <<"Ref:", strip(lines1[i])>>,
                                  <<"Test:", strip(lines2[i])>> >>
            IN IF diffs + 1 >= MaxDiffs
               THEN [ret |-> FALSE, raised |-> FALSE,
                     out |-> Append(out2, <<"... and more differences.">>)]
               ELSE CompareLoop(lines1, lines2, i + 1, diffs + 1, out2)
       ELSE CompareLoop(lines1, lines2, i + 1, diffs, out)

\* compare_files without the check of the two lengths
compare_files_nolen(e1, e2, name1, name2) ==
  IF ~exists(e1)
  THEN [ret |-> FALSE, raised |-> FALSE, out |-> << <<"File not found:", name1>> >>]
  ELSE IF ~exists(e2)
  THEN [ret |-> FALSE, raised |-> FALSE, out |-> << <<"File not found:", name2>> >>]
  ELSE IF isdir(e1) \/ isdir(e2)
  THEN [ret |-> FALSE, raised |-> TRUE, out |-> <<>>]
  ELSE CompareLoop(readlines(e1.data), readlines(e2.data), 1, 0, <<>>)

\* compare_files letting open() raise on a missing file
compare_files_raise(e1, e2, name1, name2) ==
  IF ~exists(e1) \/ ~exists(e2) \/ isdir(e1) \/ isdir(e2)
  THEN [ret |-> FALSE, raised |-> TRUE, out |-> <<>>]
  ELSE LET lines1 == readlines(e1.data)
           lines2 == readlines(e2.data)
       IN IF Len(lines1) # Len(lines2)
          THEN [ret |-> FALSE, raised |-> FALSE,
                out |-> << <<"Files have different number of lines:",
                             Len(lines1), Len(lines2)>> >>]
          ELSE CompareLoop(lines1, lines2, 1, 0, <<>>)

\* compare_files(file1, file2) on the directory entries e1, e2 of the two
\* paths; name1, name2 are the paths.  open() of a directory raises.
compare_files(e1, e2, name1, name2) ==
  IF ~exists(e1)
  THEN [ret |-> FALSE, raised |-> FALSE, out |-> << <<"File not found:", name1>> >>]
  ELSE IF ~exists(e2)
  THEN [ret |-> FALSE, raised |-> FALSE, out |-> << <<"File not found:", name2>> >>]
  ELSE IF isdir(e1) \/ isdir(e2)
  THEN [ret |-> FALSE, raised |-> TRUE, out |-> <<>>]
  ELSE LET lines1 == readlines(e1.data)
           lines2 == readlines(e2.data)
       IN IF Len(lines1) # Len(lines2)
          THEN [ret |-> FALSE, raised |-> FALSE,
                out |-> << <<"Files have different number of lines:",
                             Len(lines1), Len(lines2)>> >>]
          ELSE CompareLoop(lines1, lines2, 1, 0, <<>>)

(***************************************************************************)
(* The file system of the regression harness                               *)
(***************************************************************************)
out_ref == "output_ref.gtf"
out_test == "output_test.gtf"
tmp_ref == "tmp_ref"
tmp_test == "tmp_test"
peaks_file == "tmp_ref/allpeaks.bed"
log_main == "GeneExt.log"
log_ref == "output_ref.gtf.GeneExt.log"
log_test == "output_test.gtf.GeneExt.log"

files_to_clean == <<tmp_ref, tmp_test, out_ref, out_test>>
log_files == <<log_main, log_ref, log_test>>

Range(s) == {s[i] : i \in 1..Len(s)}
Artifacts == Range(files_to_clean \o log_files)
Paths == Artifacts \cup {peaks_file}

\* the paths below a directory
Inside(p) == IF p = tmp_ref THEN {peaks_file} ELSE {}

\* shutil.rmtree(p)
rmtree(f, p) == [q \in Paths |-> IF q = p \/ q \in Inside(p) THEN Absent ELSE f[q]]
\* os.remove(p)
remove(f, p) == [f EXCEPT ![p] = Absent]

\* cleanup removing plain files only
RECURSIVE cleanup_files_only(_, _)
cleanup_files_only(f, paths) ==
  IF paths = <<>> THEN f
  ELSE LET p == Head(paths)
           g == IF exists(f[p]) /\ ~isdir(f[p]) THEN remove(f, p) ELSE f
       IN cleanup_files_only(g, Tail(paths))

RECURSIVE cleanup(_, _)
cleanup(f, paths) ==
  IF paths = <<>> THEN f
  ELSE LET p == Head(paths)
           g == IF exists(f[p])
                THEN IF isdir(f[p]) THEN rmtree(f, p) ELSE remove(f, p)
                ELSE f
       IN cleanup(g, Tail(paths))

(***************************************************************************)
(* State                                                                   *)
(***************************************************************************)
VARIABLES
  \* regression harness (compare_geneext_modes.py, main)
  pc,          \* position in main
  fs,          \* the working directory: path -> directory entry
  gtf_exists,  \* os.path.exists(args.genome)
  bam_exists,  \* os.path.exists(args.bam)
  keep,        \* args.keep
  verbose,     \* args.verbose
  success,     \* the local variable success
  exc,         \* the exception propagating through the finally block
  ref_rc,      \* result.returncode of the reference run (-1: not run)
  test_rc,     \* result.returncode of the test run (-1: not run)
  stdout,      \* what the harness has printed
  exit_code,   \* the exit status of the process (-1: still running)
  \* compare_files called on its own
  file1, file2, cmp_pc, cmp_res,
  \* extension analyzer (workflows/ourGeneExtensionComparison.py, main)
  a_pc,                \* position in main
  ref_exists,          \* os.path.exists(ref_file)
  ext_exists,          \* os.path.exists(ext_file)
  ref_genes,           \* load_genes(ref_file)
  ext_genes,           \* load_genes(ext_file)
  comparison_results,  \* the list of comparison records
  summary,             \* the statistics of the summary text
  summary_file,        \* ComparisonSummary.txt on disk
  table_file,          \* ComparisonTable.csv on disk
  a_stdout,            \* what the analyzer has printed
  a_exit               \* the exit status of the process (-1: still running)

harness_vars == <<pc, fs, gtf_exists, bam_exists, keep, verbose, success, exc,
                  ref_rc, test_rc, stdout, exit_code>>
compare_vars == <<file1, file2, cmp_pc, cmp_res>>
analyzer_vars == <<a_pc, ref_exists, ext_exists, ref_genes, ext_genes,
                   comparison_results, summary, summary_file, table_file,
                   a_stdout, a_exit>>
vars == <<harness_vars, compare_vars, analyzer_vars>>

(***************************************************************************)
(* The regression harness                                                  *)
(***************************************************************************)
\* the exit statuses a subprocess can end with
ReturnCodes == {0, 1, 2}

HarnessRawLines == {<<"a", "LF">>, <<"b", "LF">>, <<"a", "CRLF">>}
HarnessFiles == SeqsUpTo(HarnessRawLines, HarnessLines)

\* what a path of each kind can hold
TmpRefVals == {<<Absent, Absent>>, <<Dir, Absent>>, <<Dir, File(<<>>)>>}
TmpVals == {Absent, Dir}
OutVals == {Absent, Dir} \cup {File(c) : c \in HarnessFiles}
LogVals == {Absent, File(<<>>)}

\* geneext.py -b ... -o output_ref.gtf -t tmp_ref: an opaque program that
\* leaves its working directory, its output and its logs in any state
RefEffects(f) ==
  {[f EXCEPT ![tmp_ref] = t[1], ![peaks_file] = t[2], ![out_ref] = o,
             ![log_main] = l1, ![log_ref] = l2] :
     t \in TmpRefVals, o \in OutVals, l1 \in LogVals, l2 \in LogVals}

\* geneext.py -p tmp_ref/allpeaks.bed -o output_test.gtf -t tmp_test
TestEffects(f) ==
  {[f EXCEPT ![tmp_test] = t, ![out_test] = o,
             ![log_main] = l1, ![log_test] = l2] :
     t \in TmpVals, o \in OutVals, l1 \in LogVals, l2 \in LogVals}

\* run_command(cmd, verbose) up to the call of subprocess.run
run_command_pre(name) ==
  IF verbose THEN << <<"Running:", name>> >> ELSE <<>>

\* run_command(cmd, verbose) after subprocess.run returned rc
run_command_fail(name) ==
  << <<"Error running command:", name>>, <<"STDOUT:">>, <<"STDERR:">> >>

HarnessInit ==
  /\ pc = "check_inputs"
  /\ \E t \in TmpRefVals, tt \in TmpVals, o1 \in OutVals, o2 \in OutVals,
        l1 \in LogVals, l2 \in LogVals, l3 \in LogVals :
       fs = [p \in Paths |->
               CASE p = tmp_ref -> t[1]
                 [] p = peaks_file -> t[2]
                 [] p = tmp_test -> tt
                 [] p = out_ref -> o1
                 [] p = out_test -> o2
                 [] p = log_main -> l1
                 [] p = log_ref -> l2
                 [] OTHER -> l3]
  /\ gtf_exists \in BOOLEAN
  /\ bam_exists \in BOOLEAN
  /\ keep \in BOOLEAN
  /\ verbose \in BOOLEAN
  /\ success = FALSE
  /\ exc = "none"
  /\ ref_rc = -1
  /\ test_rc = -1
  /\ stdout = <<>>
  /\ exit_code = -1

\* the input checks made after the cleanup beforehand
CheckInputs_after_cleanup ==
  /\ pc = "check_inputs"
  /\ IF ~gtf_exists
     THEN /\ stdout' = Append(stdout, <<"Error: Genome file not found">>)
          /\ fs' = cleanup(fs, files_to_clean \o log_files)
          /\ exit_code' = 1
          /\ pc' = "done"
     ELSE IF ~bam_exists
     THEN /\ stdout' = Append(stdout, <<"Error: BAM file not found">>)
          /\ fs' = cleanup(fs, files_to_clean \o log_files)
          /\ exit_code' = 1
          /\ pc' = "done"
     ELSE /\ pc' = "cleanup"
          /\ UNCHANGED <<stdout, exit_code, fs>>
  /\ UNCHANGED <<gtf_exists, bam_exists, keep, verbose, success, exc,
                 ref_rc, test_rc>>
  /\ UNCHANGED <<compare_vars, analyzer_vars>>

\* main, lines 75-81: the input checks, before the try block
CheckInputs ==
  /\ pc = "check_inputs"
  /\ IF ~gtf_exists
     THEN /\ stdout' = Append(stdout, <<"Error: Genome file not found">>)
          /\ exit_code' = 1
          /\ pc' = "done"
     ELSE IF ~bam_exists
     THEN /\ stdout' = Append(stdout, <<"Error: BAM file not found">>)
          /\ exit_code' = 1
          /\ pc' = "done"
     ELSE /\ pc' = "cleanup"
          /\ UNCHANGED <<stdout, exit_code>>
  /\ UNCHANGED <<fs, gtf_exists, bam_exists, keep, verbose, success, exc,
                 ref_rc, test_rc>>
  /\ UNCHANGED <<compare_vars, analyzer_vars>>

\* the cleanup beforehand forgetting the log files
InitialCleanup_no_logs ==
  /\ pc = "cleanup"
  /\ fs' = cleanup(fs, files_to_clean)
  /\ success' = FALSE
  /\ pc' = "run_ref"
  /\ UNCHANGED <<gtf_exists, bam_exists, keep, verbose, exc, ref_rc, test_rc,
                 stdout, exit_code>>
  /\ UNCHANGED <<compare_vars, analyzer_vars>>

\* main, lines 89-92: the cleanup beforehand and success = False
InitialCleanup ==
  /\ pc = "cleanup"
  /\ fs' = cleanup(fs, files_to_clean \o log_files)
  /\ success' = FALSE
  /\ pc' = "run_ref"
  /\ UNCHANGED <<gtf_exists, bam_exists, keep, verbose, exc, ref_rc, test_rc,
                 stdout, exit_code>>
  /\ UNCHANGED <<compare_vars, analyzer_vars>>

\* the reference run with a run_command that does not look at the exit status
RunReference_ignore_rc ==
  /\ pc = "run_ref"
  /\ LET pre == Append(stdout, <<"--- Running Mode 1">>) \o run_command_pre("cmd_ref")
     IN \/ /\ stdout' = Append(pre, <<"An unexpected error occurred">>)
           /\ success' = FALSE
           /\ exc' = "Exception"
           /\ pc' = "finally"
           /\ UNCHANGED <<fs, ref_rc>>
        \/ \E rc \in ReturnCodes, g \in RefEffects(fs) :
             /\ fs' = g
             /\ ref_rc' = rc
             /\ stdout' = pre
             /\ pc' = "check_peaks"
             /\ UNCHANGED <<success, exc>>
  /\ UNCHANGED <<gtf_exists, bam_exists, keep, verbose, test_rc, exit_code>>
  /\ UNCHANGED <<compare_vars, analyzer_vars>>

\* main, lines 94-97 and 122-128: the reference run
RunReference ==
  /\ pc = "run_ref"
  /\ LET pre == Append(stdout, <<"--- Running Mode 1">>) \o run_command_pre("cmd_ref")
     IN \/ \* subprocess.run raises (the interpreter cannot be started)
           /\ stdout' = Append(pre, <<"An unexpected error occurred">>)
           /\ success' = FALSE
           /\ exc' = "Exception"
           /\ pc' = "finally"
           /\ UNCHANGED <<fs, ref_rc>>
        \/ \E rc \in ReturnCodes, g \in RefEffects(fs) :
             /\ fs' = g
             /\ ref_rc' = rc
             /\ IF rc # 0
                THEN /\ stdout' = pre \o run_command_fail("cmd_ref")
                     /\ success' = FALSE
                     /\ exc' = "SystemExit"
                     /\ pc' = "finally"
                ELSE /\ stdout' = pre
                     /\ pc' = "check_peaks"
                     /\ UNCHANGED <<success, exc>>
  /\ UNCHANGED <<gtf_exists, bam_exists, keep, verbose, test_rc, exit_code>>
  /\ UNCHANGED <<compare_vars, analyzer_vars>>

\* the peaks check reporting a missing peaks file and going on
CheckPeaks_no_exit ==
  /\ pc = "check_peaks"
  /\ stdout' = Append(stdout, IF ~exists(fs[peaks_file])
                              THEN <<"Error: Peaks file not found">>
                              ELSE <<"Peaks file generated at:">>)
  /\ pc' = "run_test"
  /\ UNCHANGED <<fs, gtf_exists, bam_exists, keep, verbose, success, exc,
                 ref_rc, test_rc, exit_code>>
  /\ UNCHANGED <<compare_vars, analyzer_vars>>

\* the peaks check exiting outside the try block
CheckPeaks_outside_try ==
  /\ pc = "check_peaks"
  /\ IF ~exists(fs[peaks_file])
     THEN /\ stdout' = Append(stdout, <<"Error: Peaks file not found">>)
          /\ exit_code' = 1
          /\ pc' = "done"
          /\ UNCHANGED <<success, exc>>
     ELSE /\ stdout' = Append(stdout, <<"Peaks file generated at:">>)
          /\ pc' = "run_test"
          /\ UNCHANGED <<success, exc, exit_code>>
  /\ UNCHANGED <<fs, gtf_exists, bam_exists, keep, verbose, ref_rc, test_rc>>
  /\ UNCHANGED <<compare_vars, analyzer_vars>>

\* main, lines 99-106: the peaks file of the reference run
CheckPeaks ==
  /\ pc = "check_peaks"
  /\ IF ~exists(fs[peaks_file])
     THEN /\ stdout' = Append(stdout, <<"Error: Peaks file not found">>)
          /\ success' = FALSE
          /\ exc' = "SystemExit"
          /\ pc' = "finally"
     ELSE /\ stdout' = Append(stdout, <<"Peaks file generated at:">>)
          /\ pc' = "run_test"
          /\ UNCHANGED <<success, exc>>
  /\ UNCHANGED <<fs, gtf_exists, bam_exists, keep, verbose, ref_rc, test_rc,
                 exit_code>>
  /\ UNCHANGED <<compare_vars, analyzer_vars>>

\* main, lines 108-111 and 122-128: the test run
RunTest ==
  /\ pc = "run_test"
  /\ LET pre == Append(stdout, <<"--- Running Mode 2">>) \o run_command_pre("cmd_test")
     IN \/ /\ stdout' = Append(pre, <<"An unexpected error occurred">>)
           /\ success' = FALSE
           /\ exc' = "Exception"
           /\ pc' = "finally"
           /\ UNCHANGED <<fs, test_rc>>
        \/ \E rc \in ReturnCodes, g \in TestEffects(fs) :
             /\ fs' = g
             /\ test_rc' = rc
             /\ IF rc # 0
                THEN /\ stdout' = pre \o run_command_fail("cmd_test")
                     /\ success' = FALSE
                     /\ exc' = "SystemExit"
                     /\ pc' = "finally"
                ELSE /\ stdout' = pre
                     /\ pc' = "compare"
                     /\ UNCHANGED <<success, exc>>
  /\ UNCHANGED <<gtf_exists, bam_exists, keep, verbose, ref_rc, exit_code>>
  /\ UNCHANGED <<compare_vars, analyzer_vars>>

\* the comparison setting success whatever compare_files returns
Compare_always_success ==
  /\ pc = "compare"
  /\ LET pre == Append(stdout, <<"--- Comparing Outputs ---">>)
         res == compare_files(fs[out_ref], fs[out_test], out_ref, out_test)
     IN IF res.raised
        THEN /\ stdout' = Append(pre \o res.out, <<"An unexpected error occurred">>)
             /\ success' = FALSE
             /\ exc' = "Exception"
        ELSE /\ stdout' = Append(pre \o res.out,
                                 IF res.ret THEN <<"SUCCESS">> ELSE <<"FAILURE">>)
             /\ success' = TRUE
             /\ UNCHANGED exc
  /\ pc' = "finally"
  /\ UNCHANGED <<fs, gtf_exists, bam_exists, keep, verbose, ref_rc, test_rc,
                 exit_code>>
  /\ UNCHANGED <<compare_vars, analyzer_vars>>

\* main, lines 113-128: the comparison of the two outputs
Compare ==
  /\ pc = "compare"
  /\ LET pre == Append(stdout, <<"--- Comparing Outputs ---">>)
         res == compare_files(fs[out_ref], fs[out_test], out_ref, out_test)
     IN IF res.raised
        THEN /\ stdout' = Append(pre \o res.out, <<"An unexpected error occurred">>)
             /\ success' = FALSE
             /\ exc' = "Exception"
        ELSE /\ stdout' = Append(pre \o res.out,
                                 IF res.ret THEN <<"SUCCESS">> ELSE <<"FAILURE">>)
             /\ success' = res.ret
             /\ UNCHANGED exc
  /\ pc' = "finally"
  /\ UNCHANGED <<fs, gtf_exists, bam_exists, keep, verbose, ref_rc, test_rc,
                 exit_code>>
  /\ UNCHANGED <<compare_vars, analyzer_vars>>

\* the lines the finally block prints for the log files that exist
RECURSIVE LogLines(_, _)
LogLines(f, logs) ==
  IF logs = <<>> THEN <<>>
  ELSE (IF exists(f[Head(logs)]) THEN << <<"Log File:", Head(logs)>> >> ELSE <<>>)
       \o LogLines(f, Tail(logs))

\* main, lines 130-151: the finally block, and the end of the process
Finally ==
  /\ pc = "finally"
  /\ IF success /\ ~keep
     THEN /\ stdout' = Append(stdout, <<"Cleaning up...">>)
          /\ fs' = cleanup(fs, files_to_clean \o log_files)
     ELSE /\ stdout' = stdout
                \o << (IF ~success THEN <<"Artifacts preserved for inspection:">>
                                   ELSE <<"--keep flag set. Artifacts preserved:">>),
                      <<"Reference Output:", out_ref>>,
                      <<"Test Output:", out_test>>,
                      <<"Reference Temp:", tmp_ref>>,
                      <<"Test Temp:", tmp_test>> >>
                \o LogLines(fs, log_files)
          /\ fs' = fs
  /\ exit_code' = IF exc = "none" THEN 0 ELSE 1
  /\ pc' = "done"
  /\ UNCHANGED <<gtf_exists, bam_exists, keep, verbose, success, exc, ref_rc,
                 test_rc>>
  /\ UNCHANGED <<compare_vars, analyzer_vars>>

Next ==
  \/ CheckInputs
  \/ InitialCleanup
  \/ RunReference
  \/ CheckPeaks
  \/ RunTest
  \/ Compare
  \/ Finally

(***************************************************************************)
(* compare_files called on its own                                         *)
(***************************************************************************)
LongLines == Texts \X {"LF"}
CompareFiles ==
  {c \in SeqsUpTo(RawLines, MaxLen) : WellFormed(c)} \cup SeqsUpTo(LongLines, MaxLong)
CompareEntries == {Absent} \cup {File(c) : c \in CompareFiles}

NoResult == [ret |-> FALSE, raised |-> FALSE, out |-> <<>>]

CompareInit ==
  /\ file1 \in CompareEntries
  /\ file2 \in CompareEntries
  /\ cmp_pc = "call"
  /\ cmp_res = NoResult

CallCompare ==
  /\ cmp_pc = "call"
  /\ cmp_res' = compare_files(file1, file2, "file1", "file2")
  /\ cmp_pc' = "returned"
  /\ UNCHANGED <<file1, file2>>
  /\ UNCHANGED <<harness_vars, analyzer_vars>>

CompareNext == CallCompare

(***************************************************************************)
(* The extension analyzer                                                  *)
(***************************************************************************)
\* largest coordinate of a gene
MaxCoord == 2

\* the gene identifiers, in the order in which the annotation files list them
IdOrder == <<"g1", "g2">>
GeneIds == Range(IdOrder)
IdIndex(g) == CHOOSE i \in 1..Len(IdOrder) : IdOrder[i] = g
Strands == {"+", "-", "."}

\* the gene records the annotation loader returns: identifier, 1-based
\* start, end >= start, strand
Genes ==
  {[id |-> g, start |-> st, end |-> en, strand |-> sd] :
     g \in GeneIds, st \in 1..MaxCoord, en \in 1..MaxCoord, sd \in Strands}
  \ {r \in [id : GeneIds, start : 1..MaxCoord, end : 1..MaxCoord, strand : Strands] :
       r.end < r.start}

\* load_genes(filepath): the list the parser returns, one record per
\* identifier of the file, in file order
GeneLists ==
  {l \in SeqsUpTo(Genes, Len(IdOrder)) :
     \A i, j \in 1..Len(l) : i < j => IdIndex(l[i].id) < IdIndex(l[j].id)}

\* {g.id: g for g in genes}: a later gene replaces an earlier one
RECURSIVE DictOf(_)
DictOf(genes) ==
  IF genes = <<>> THEN <<>>
  ELSE LET d == DictOf(SubSeq(genes, 1, Len(genes) - 1))
           g == genes[Len(genes)]
       IN [k \in (DOMAIN d) \cup {g.id} |-> IF k = g.id THEN g ELSE d[k]]

\* the extension length taken at the end coordinate whatever the strand
ExtensionLength_unstranded(ref_gene, ext_gene) ==
  IF ref_gene.strand = "+" THEN ext_gene.end - ref_gene.end
  ELSE IF ref_gene.strand = "-" THEN ext_gene.end - ref_gene.end
  ELSE 0

\* lines 84-88: the extension length of a common gene
ExtensionLength(ref_gene, ext_gene) ==
  IF ref_gene.strand = "+" THEN ext_gene.end - ref_gene.end
  ELSE IF ref_gene.strand = "-" THEN ref_gene.start - ext_gene.start
  ELSE 0

\* lines 93-101: the comparison record of a common gene
ComparisonRecord(gene_id, ref_gene, ext_gene) ==
  [GeneID |-> gene_id,
   OldStart |-> ref_gene.start,
   OldEnd |-> ref_gene.end,
   NewStart |-> ext_gene.start,
   NewEnd |-> ext_gene.end,
   ExtensionLength |-> ExtensionLength(ref_gene, ext_gene),
   Strand |-> ref_gene.strand]

\* the orders in which a set can be iterated
Orders(S) ==
  {o \in [1..Cardinality(S) -> S] : \A i, j \in DOMAIN o : o[i] = o[j] => i = j}

\* an ascending sort of a sequence of integers
RECURSIVE sorted(_)
sorted(q) ==
  IF q = <<>> THEN <<>>
  ELSE LET i == CHOOSE k \in 1..Len(q) : \A j \in 1..Len(q) : q[k] <= q[j]
       IN <<q[i]>> \o sorted(SubSeq(q, 1, i - 1) \o SubSeq(q, i + 1, Len(q)))

\* the statistics taken over the rows with ExtensionLength >= 0
Statistics_nonneg(results) ==
  LET IsExtended(r) == r.ExtensionLength >= 0
      extended == SelectSeq(results, IsExtended)
      lens == sorted([i \in 1..Len(extended) |-> extended[i].ExtensionLength])
      n == Len(lens)
  IN [total_genes |-> Len(results),
      num_extended |-> n,
      median_ext |-> IF n = 0 THEN [num |-> 0, den |-> 1]
                     ELSE IF n % 2 = 1 THEN [num |-> lens[(n + 1) \div 2], den |-> 1]
                     ELSE [num |-> lens[n \div 2] + lens[n \div 2 + 1], den |-> 2],
      max_ext |-> IF n = 0 THEN 0 ELSE lens[n],
      min_ext |-> IF n = 0 THEN 0 ELSE lens[1]]

\* lines 109-120: the statistics over the rows with ExtensionLength > 0;
\* the median is the fraction num/den
Statistics(results) ==
  LET IsExtended(r) == r.ExtensionLength > 0
      extended == SelectSeq(results, IsExtended)
      lens == sorted([i \in 1..Len(extended) |-> extended[i].ExtensionLength])
      n == Len(lens)
  IN [total_genes |-> Len(results),
      num_extended |-> n,
      median_ext |-> IF n = 0 THEN [num |-> 0, den |-> 1]
                     ELSE IF n % 2 = 1 THEN [num |-> lens[(n + 1) \div 2], den |-> 1]
                     ELSE [num |-> lens[n \div 2] + lens[n \div 2 + 1], den |-> 2],
      max_ext |-> IF n = 0 THEN 0 ELSE lens[n],
      min_ext |-> IF n = 0 THEN 0 ELSE lens[1]]

NoSummary ==
  [total_genes |-> 0, num_extended |-> 0, median_ext |-> [num |-> 0, den |-> 1],
   max_ext |-> 0, min_ext |-> 0]

\* the header row of df.to_csv(table_file, index=False)
Header ==
  <<"GeneID", "OldStart", "OldEnd", "NewStart", "NewEnd", "ExtensionLength", "Strand">>

\* df.to_csv(table_file, index=False): one row per record, in column order
to_csv(results) ==
  [i \in 1..Len(results) |->
     <<results[i].GeneID, results[i].OldStart, results[i].OldEnd,
       results[i].NewStart, results[i].NewEnd, results[i].ExtensionLength,
       results[i].Strand>>]

\* a report file: state is "absent", "stale" (of an earlier run) or "written"
NoFile == [state |-> "absent", summary |-> NoSummary, rows |-> <<>>]
StaleFile == [state |-> "stale", summary |-> NoSummary, rows |-> <<>>]

AnalyzerInit ==
  /\ a_pc = "check_files"
  /\ ref_exists \in BOOLEAN
  /\ ext_exists \in BOOLEAN
  /\ ref_genes = <<>>
  /\ ext_genes = <<>>
  /\ comparison_results = <<>>
  /\ summary = NoSummary
  /\ summary_file \in {NoFile, StaleFile}
  /\ table_file \in {NoFile, StaleFile}
  /\ a_stdout = <<>>
  /\ a_exit = -1

\* main, lines 47-52: the two input files must exist
CheckFiles ==
  /\ a_pc = "check_files"
  /\ IF ~ref_exists
     THEN /\ a_stdout' = Append(a_stdout, <<"Error: Reference file not found">>)
          /\ a_exit' = 1
          /\ a_pc' = "done"
     ELSE IF ~ext_exists
     THEN /\ a_stdout' = Append(a_stdout, <<"Error: Extended file not found">>)
          /\ a_exit' = 1
          /\ a_pc' = "done"
     ELSE /\ a_pc' = "load_ref"
          /\ UNCHANGED <<a_stdout, a_exit>>
  /\ UNCHANGED <<ref_exists, ext_exists, ref_genes, ext_genes,
                 comparison_results, summary, summary_file, table_file>>
  /\ UNCHANGED <<harness_vars, compare_vars>>

\* main, lines 54-60: the reference annotation is loaded, or the parser raises
LoadReference ==
  /\ a_pc = "load_ref"
  /\ \/ /\ a_stdout' = a_stdout \o << <<"Loading genes from ref_file">>,
                                      <<"Error loading genes from ref_file">> >>
        /\ a_exit' = 1
        /\ a_pc' = "done"
        /\ UNCHANGED ref_genes
     \/ \E genes \in GeneLists :
          /\ ref_genes' = genes
          /\ a_stdout' = a_stdout \o << <<"Loading genes from ref_file">>,
                                        <<"Loaded genes from reference:", Len(genes)>> >>
          /\ a_pc' = "load_ext"
          /\ UNCHANGED a_exit
  /\ UNCHANGED <<ref_exists, ext_exists, ext_genes, comparison_results,
                 summary, summary_file, table_file>>
  /\ UNCHANGED <<harness_vars, compare_vars>>

\* the load of the extended annotation going on with no genes when the
\* parser raises
LoadExtended_swallow ==
  /\ a_pc = "load_ext"
  /\ \/ /\ a_stdout' = a_stdout \o << <<"Loading genes from ext_file">>,
                                      <<"Error loading genes from ext_file">> >>
        /\ a_pc' = "analyze"
        /\ UNCHANGED <<ext_genes, a_exit>>
     \/ \E genes \in GeneLists :
          /\ ext_genes' = genes
          /\ a_stdout' = a_stdout \o << <<"Loading genes from ext_file">>,
                                        <<"Loaded genes from extended file:", Len(genes)>> >>
          /\ a_pc' = "analyze"
          /\ UNCHANGED a_exit
  /\ UNCHANGED <<ref_exists, ext_exists, ref_genes, comparison_results,
                 summary, summary_file, table_file>>
  /\ UNCHANGED <<harness_vars, compare_vars>>

\* main, lines 62-68: the extended annotation is loaded, or the parser raises
LoadExtended ==
  /\ a_pc = "load_ext"
  /\ \/ /\ a_stdout' = a_stdout \o << <<"Loading genes from ext_file">>,
                                      <<"Error loading genes from ext_file">> >>
        /\ a_exit' = 1
        /\ a_pc' = "done"
        /\ UNCHANGED ext_genes
     \/ \E genes \in GeneLists :
          /\ ext_genes' = genes
          /\ a_stdout' = a_stdout \o << <<"Loading genes from ext_file">>,
                                        <<"Loaded genes from extended file:", Len(genes)>> >>
          /\ a_pc' = "analyze"
          /\ UNCHANGED a_exit
  /\ UNCHANGED <<ref_exists, ext_exists, ref_genes, comparison_results,
                 summary, summary_file, table_file>>
  /\ UNCHANGED <<harness_vars, compare_vars>>

\* the analysis keeping only the genes that changed (lines 90-91)
Analyze_only_changed ==
  /\ a_pc = "analyze"
  /\ LET ref_dict == DictOf(ref_genes)
         ext_dict == DictOf(ext_genes)
         common_ids == (DOMAIN ref_dict) \cap (DOMAIN ext_dict)
         found == Append(a_stdout, <<"Found common genes:", Cardinality(common_ids)>>)
         Changed(r) == r.ExtensionLength # 0
     IN \E order \in Orders(common_ids) :
          LET results == SelectSeq([i \in 1..Len(order) |->
                            ComparisonRecord(order[i], ref_dict[order[i]],
                                             ext_dict[order[i]])], Changed)
          IN /\ comparison_results' = results
             /\ IF results = <<>>
                THEN /\ a_stdout' = Append(found, <<"No common genes found">>)
                     /\ a_exit' = 0
                     /\ a_pc' = "done"
                     /\ UNCHANGED summary
                ELSE /\ summary' = Statistics(results)
                     /\ a_stdout' = found
                     /\ a_pc' = "write_summary"
                     /\ UNCHANGED a_exit
  /\ UNCHANGED <<ref_exists, ext_exists, ref_genes, ext_genes, summary_file,
                 table_file>>
  /\ UNCHANGED <<harness_vars, compare_vars>>

\* the analysis without the return on an empty list of records
Analyze_no_return ==
  /\ a_pc = "analyze"
  /\ LET ref_dict == DictOf(ref_genes)
         ext_dict == DictOf(ext_genes)
         common_ids == (DOMAIN ref_dict) \cap (DOMAIN ext_dict)
         found == Append(a_stdout, <<"Found common genes:", Cardinality(common_ids)>>)
     IN \E order \in Orders(common_ids) :
          LET results == [i \in 1..Len(order) |->
                            ComparisonRecord(order[i], ref_dict[order[i]],
                                             ext_dict[order[i]])]
          IN /\ comparison_results' = results
             /\ summary' = Statistics(results)
             /\ a_stdout' = found
             /\ a_pc' = "write_summary"
             /\ UNCHANGED a_exit
  /\ UNCHANGED <<ref_exists, ext_exists, ref_genes, ext_genes, summary_file,
                 table_file>>
  /\ UNCHANGED <<harness_vars, compare_vars>>

\* main, lines 70-128: the comparison records and the statistics
Analyze ==
  /\ a_pc = "analyze"
  /\ LET ref_dict == DictOf(ref_genes)
         ext_dict == DictOf(ext_genes)
         common_ids == (DOMAIN ref_dict) \cap (DOMAIN ext_dict)
         found == Append(a_stdout, <<"Found common genes:", Cardinality(common_ids)>>)
     IN \E order \in Orders(common_ids) :
          LET results == [i \in 1..Len(order) |->
                            ComparisonRecord(order[i], ref_dict[order[i]],
                                             ext_dict[order[i]])]
          IN /\ comparison_results' = results
             /\ IF results = <<>>
                THEN /\ a_stdout' = Append(found, <<"No common genes found">>)
                     /\ a_exit' = 0
                     /\ a_pc' = "done"
                     /\ UNCHANGED summary
                ELSE /\ summary' = Statistics(results)
                     /\ a_stdout' = found
                     /\ a_pc' = "write_summary"
                     /\ UNCHANGED a_exit
  /\ UNCHANGED <<ref_exists, ext_exists, ref_genes, ext_genes, summary_file,
                 table_file>>
  /\ UNCHANGED <<harness_vars, compare_vars>>

\* a report file that was opened for writing and not written in full
Truncated == [state |-> "truncated", summary |-> NoSummary, rows |-> <<>>]

\* main, lines 130-135: ComparisonSummary.txt is written; open() or
\* f.write() may raise OSError, which nothing catches
WriteSummary ==
  /\ a_pc = "write_summary"
  /\ \/ /\ summary_file' = [state |-> "written", summary |-> summary, rows |-> <<>>]
        /\ a_pc' = "write_table"
        /\ UNCHANGED a_exit
     \/ \* open(summary_file, "w") raises
        /\ a_exit' = 1
        /\ a_pc' = "done"
        /\ UNCHANGED summary_file
     \/ \* f.write(summary) raises after open() emptied the file
        /\ summary_file' = Truncated
        /\ a_exit' = 1
        /\ a_pc' = "done"
  /\ UNCHANGED <<ref_exists, ext_exists, ref_genes, ext_genes,
                 comparison_results, summary, table_file, a_stdout>>
  /\ UNCHANGED <<harness_vars, compare_vars>>

\* main, lines 137-141: ComparisonTable.csv is written and main returns;
\* df.to_csv may raise OSError, which nothing catches
WriteTable ==
  /\ a_pc = "write_table"
  /\ \/ /\ table_file' = [state |-> "written", summary |-> NoSummary,
                          rows |-> <<Header>> \o to_csv(comparison_results)]
        /\ a_stdout' = a_stdout \o << <<"Comparison complete.">>,
                                      <<"Summary written to:">>,
                                      <<"Table written to:">> >>
        /\ a_exit' = 0
     \/ \* the file cannot be opened
        /\ a_exit' = 1
        /\ UNCHANGED <<table_file, a_stdout>>
     \/ \* writing fails after the file was opened
        /\ table_file' = Truncated
        /\ a_exit' = 1
        /\ UNCHANGED a_stdout
  /\ a_pc' = "done"
  /\ UNCHANGED <<ref_exists, ext_exists, ref_genes, ext_genes,
                 comparison_results, summary, summary_file>>
  /\ UNCHANGED <<harness_vars, compare_vars>>

AnalyzerNext ==
  \/ CheckFiles
  \/ LoadReference
  \/ LoadExtended
  \/ Analyze
  \/ WriteSummary
  \/ WriteTable

(***************************************************************************)
(* Specifications                                                          *)
(***************************************************************************)
HarnessOff ==
  /\ pc = "off"
  /\ fs = [p \in Paths |-> Absent]
  /\ gtf_exists = FALSE /\ bam_exists = FALSE /\ keep = FALSE /\ verbose = FALSE
  /\ success = FALSE /\ exc = "none" /\ ref_rc = -1 /\ test_rc = -1
  /\ stdout = <<>> /\ exit_code = -1

CompareOff ==
  /\ file1 = Absent /\ file2 = Absent /\ cmp_pc = "off" /\ cmp_res = NoResult

AnalyzerOff ==
  /\ a_pc = "off"
  /\ ref_exists = FALSE /\ ext_exists = FALSE
  /\ ref_genes = <<>> /\ ext_genes = <<>>
  /\ comparison_results = <<>> /\ summary = NoSummary
  /\ summary_file = NoFile /\ table_file = NoFile
  /\ a_stdout = <<>> /\ a_exit = -1

Init == HarnessInit /\ CompareOff /\ AnalyzerOff
Spec == Init /\ [][Next]_vars

InitCompare == CompareInit /\ HarnessOff /\ AnalyzerOff
SpecCompare == InitCompare /\ [][CompareNext]_vars

InitAnalyzer == AnalyzerInit /\ HarnessOff /\ CompareOff
SpecAnalyzer == InitAnalyzer /\ [][AnalyzerNext]_vars

(***************************************************************************)
(* Properties of the regression harness                                    *)
(***************************************************************************)
Printed(tag) == \E i \in 1..Len(stdout) : stdout[i][1] = tag

TerminalHeaders ==
  {"Cleaning up...", "Artifacts preserved for inspection:",
   "--keep flag set. Artifacts preserved:"}
\* how many times the cleanup-or-preserve decision of the finally block ran
TerminalDecisions ==
  Cardinality({i \in 1..Len(stdout) : stdout[i][1] \in TerminalHeaders})

\* C1: the process ends with exit code 1 on every precondition failure,
\* every failed pipeline run and every comparison mismatch, and with exit
\* code 0 only when both runs exited 0 and the outputs compared equal.
C1_ExitCodes ==
  pc = "done" =>
    exit_code = (IF ref_rc = 0 /\ test_rc = 0 /\ Printed("SUCCESS") THEN 0 ELSE 1)

\* C2 as claimed: on every path, the missing input file included, the
\* terminal cleanup-or-preserve decision has run exactly once when the
\* process has ended.
C2_Original == pc = "done" => TerminalDecisions = 1

\* C2: when both input files exist the terminal cleanup-or-preserve decision
\* runs exactly once, as the last step before the process ends, whichever
\* path is taken; when an input file is missing it does not run at all.
C2_TerminalOnce ==
  /\ pc # "done" => TerminalDecisions = 0
  /\ pc = "done" =>
       TerminalDecisions = (IF gtf_exists /\ bam_exists THEN 1 ELSE 0)

C2_Witness ==
  /\ pc = "done" /\ TerminalDecisions = 1
  /\ Printed("Error: Peaks file not found")

\* C3: the terminal step leaves no artifact when the outcome is success
\* and --keep was not given, and deletes nothing otherwise.
C3_TerminalStep ==
  [][pc = "finally" =>
       /\ pc' = "done"
       /\ IF success /\ ~keep
          THEN \A p \in Paths : ~exists(fs'[p])
          ELSE fs' = fs]_vars

C3_Witness ==
  /\ pc = "done" /\ success /\ ~keep /\ Printed("Cleaning up...")
  /\ \A p \in Paths : ~exists(fs[p])

\* C4: no artifact of a prior run exists when the reference run is invoked,
\* files appear only during the two pipeline runs, and success is reported
\* only with the peaks file and both outputs in place after two runs that
\* exited 0.
C4_NoStaleSuccess ==
  [][/\ pc = "run_ref" => \A p \in Paths : ~exists(fs[p])
     /\ \A p \in Paths :
          ~exists(fs[p]) /\ exists(fs'[p]) => pc \in {"run_ref", "run_test"}
     /\ pc' = "finally" /\ success' =>
          /\ exists(fs'[peaks_file]) /\ exists(fs'[out_ref]) /\ exists(fs'[out_test])
          /\ ref_rc' = 0 /\ test_rc' = 0]_vars

C4_Witness ==
  /\ pc = "finally" /\ success /\ Printed("SUCCESS")
  /\ exists(fs[peaks_file]) /\ exists(fs[out_ref]) /\ exists(fs[out_test])

\* C8: a missing file given to compare_files is reported and compare_files
\* returns false without raising or ending the process: the harness prints
\* FAILURE next, and ends through the preserving terminal step.
C8_MissingFile ==
  [][/\ (pc = "compare" /\ (~exists(fs[out_ref]) \/ ~exists(fs[out_test]))) =>
          /\ stdout' = stdout \o
               << <<"--- Comparing Outputs ---">>,
                  <<"File not found:",
                    IF ~exists(fs[out_ref]) THEN out_ref ELSE out_test>>,
                  <<"FAILURE">> >>
          /\ success' = FALSE /\ exc' = "none"
          /\ exit_code' = -1 /\ pc' = "finally"
     /\ (pc = "finally" /\ Printed("File not found:")) =>
          /\ fs' = fs
          /\ stdout'[Len(stdout) + 1] = <<"Artifacts preserved for inspection:">>
          /\ pc' = "done"]_vars

C8_Witness ==
  /\ pc = "done" /\ Printed("File not found:")
  /\ exists(fs[out_ref]) /\ ~exists(fs[out_test])

\* how many times a message was printed, and where it was printed first
Count(tag) == Cardinality({i \in 1..Len(stdout) : stdout[i][1] = tag})
First(tag) == CHOOSE i \in 1..Len(stdout) : stdout[i][1] = tag

\* C14: the reference run comes first; the test run is invoked only after
\* the reference run exited 0 and the peaks file was found; the comparison
\* runs only after the test run exited 0; a failed reference run or a
\* missing peaks file ends the harness without test run and comparison.
C14_Order ==
  [][/\ pc' = "run_test" => (pc = "check_peaks" /\ ref_rc = 0 /\ exists(fs[peaks_file]))
     /\ pc' = "compare" => (pc = "run_test" /\ ref_rc = 0 /\ test_rc' = 0)
     /\ (Printed("--- Running Mode 2") \/ test_rc # -1)' =>
          /\ ref_rc' = 0
          /\ Printed("--- Running Mode 1")' /\ Printed("Peaks file generated at:")'
          /\ First("--- Running Mode 1")' < First("Peaks file generated at:")'
          /\ First("Peaks file generated at:")' < First("--- Running Mode 2")'
     /\ Printed("--- Comparing Outputs ---")' =>
          /\ test_rc' = 0
          /\ First("--- Running Mode 2")' < First("--- Comparing Outputs ---")'
     /\ ((pc = "run_ref" /\ ref_rc' \notin {-1, 0})
         \/ (pc = "check_peaks" /\ ~exists(fs[peaks_file]))) =>
          /\ pc' = "finally" /\ exc' = "SystemExit"
     /\ (pc = "finally" /\ (ref_rc # 0 \/ Printed("Error: Peaks file not found"))) =>
          /\ pc' = "done" /\ test_rc' = -1
          /\ ~Printed("--- Running Mode 2")' /\ ~Printed("--- Comparing Outputs ---")']_vars

C14_Witness ==
  /\ pc = "done" /\ ref_rc = 0 /\ test_rc = -1
  /\ Printed("Error: Peaks file not found")
  /\ exists(fs[tmp_ref]) /\ exists(fs[out_ref])

\* C15: run_command returns exactly when the subprocess exited with status
\* 0; a non-zero status ends the run with exit code 1 and without a retry,
\* so each of the two configurations is invoked at most once.
C15_RunCommand ==
  [][/\ (pc = "run_ref" /\ ref_rc' # -1) =>
          /\ (ref_rc' = 0) <=> (pc' = "check_peaks")
          /\ ref_rc' # 0 =>
               /\ pc' = "finally" /\ exc' = "SystemExit"
               /\ stdout'[Len(stdout')][1] = "STDERR:"
     /\ (pc = "run_test" /\ test_rc' # -1) =>
          /\ (test_rc' = 0) <=> (pc' = "compare")
          /\ test_rc' # 0 =>
               /\ pc' = "finally" /\ exc' = "SystemExit"
               /\ stdout'[Len(stdout')][1] = "STDERR:"
     /\ ref_rc # -1 => ref_rc' = ref_rc
     /\ test_rc # -1 => test_rc' = test_rc
     /\ Count("--- Running Mode 1")' <= 1 /\ Count("--- Running Mode 2")' <= 1
     /\ (pc' = "done" /\ (ref_rc' \notin {-1, 0} \/ test_rc' \notin {-1, 0})) =>
          exit_code' = 1]_vars

C15_Witness ==
  /\ pc = "done" /\ ref_rc = 0 /\ test_rc = 2 /\ exit_code = 1
  /\ Count("--- Running Mode 1") = 1 /\ Count("--- Running Mode 2") = 1

\* success at the terminal step, from what was run and printed
C16_Outcome ==
  pc \in {"finally", "done"} =>
    (success <=>
       /\ ref_rc = 0 /\ test_rc = 0
       /\ Printed("Peaks file generated at:")
       /\ Printed("SUCCESS") /\ ~Printed("FAILURE")
       /\ exc = "none")

\* at the terminal step the two outputs are as compare_files saw them
C16_CompareResult ==
  (pc = "finally" /\ test_rc = 0) =>
    LET res == compare_files(fs[out_ref], fs[out_test], out_ref, out_test)
    IN /\ exists(fs[peaks_file])
       /\ success <=> (res.ret /\ ~res.raised)

\* C16: when the terminal step runs, success is true exactly when both runs
\* exited 0, the peaks file existed after the reference run and
\* compare_files returned true on the two outputs; otherwise it is false.
C16_Success ==
  C16_Outcome /\ C16_CompareResult

C16_Witness ==
  /\ pc = "finally" /\ ~success /\ ref_rc = 0 /\ test_rc = 0
  /\ fs[out_ref].kind = "file" /\ fs[out_test].kind = "file"
  /\ Len(fs[out_ref].data) = Len(fs[out_test].data)
  /\ Printed("FAILURE")

\* C18: with a missing annotation or alignment file the harness exits with
\* code 1 before its cleanup and before any run: the file system is left as
\* it was.
C18_MissingInput ==
  [][(pc = "check_inputs" /\ (~gtf_exists \/ ~bam_exists)) =>
       /\ pc' = "done" /\ exit_code' = 1
       /\ fs' = fs
       /\ ref_rc' = -1 /\ test_rc' = -1
       /\ stdout' = << <<IF ~gtf_exists THEN "Error: Genome file not found"
                                        ELSE "Error: BAM file not found">> >>]_vars

C18_Witness ==
  /\ pc = "done" /\ exit_code = 1 /\ gtf_exists /\ ~bam_exists
  /\ exists(fs[out_ref]) /\ exists(fs[peaks_file]) /\ exists(fs[log_main])
  /\ stdout = << <<"Error: BAM file not found">> >>

(***************************************************************************)
(* Properties of compare_files                                             *)
(***************************************************************************)
BothFiles == file1.kind = "file" /\ file2.kind = "file"

\* the positions at which the lines read from the two files differ
Mismatches ==
  LET lines1 == readlines(file1.data)
      lines2 == readlines(file2.data)
  IN {i \in 1..Len(lines1) : lines1[i] # lines2[i]}

\* the line numbers compare_files reported, in the order of the reports
Reported ==
  LET IsDiff(m) == m[1] = "Difference at line"
      d == SelectSeq(cmp_res.out, IsDiff)
  IN [i \in 1..Len(d) |-> d[i][2]]

\* the n smallest elements of S, ascending
RECURSIVE Smallest(_, _)
Smallest(S, n) ==
  IF n = 0 \/ S = {} THEN <<>>
  ELSE LET m == CHOOSE x \in S : \A y \in S : x <= y
       IN <<m>> \o Smallest(S \ {m}, n - 1)

\* C5: compare_files returns true exactly when the two files have the same
\* lines, terminators included, with no normalisation.
C5_ExactEquality ==
  cmp_pc = "returned" /\ BothFiles =>
    (cmp_res.ret <=>
       /\ Len(file1.data) = Len(file2.data)
       /\ \A i \in 1..Len(file1.data) : file1.data[i] = file2.data[i])

\* C6: with equal line counts and k >= 1 mismatching lines, compare_files
\* reports the first min(k, 5) mismatching line numbers in ascending order,
\* nothing after the 5th, and returns false.
C6_FirstFive ==
  (/\ cmp_pc = "returned" /\ BothFiles
   /\ Len(file1.data) = Len(file2.data)
   /\ Mismatches # {}) =>
    /\ Reported = Smallest(Mismatches, MaxDiffs)
    /\ Len(Reported) <= MaxDiffs
    /\ cmp_res.ret = FALSE
    /\ ~cmp_res.raised

C6_Witness ==
  /\ cmp_pc = "returned" /\ BothFiles
  /\ Len(file1.data) = Len(file2.data)
  /\ Cardinality(Mismatches) > MaxDiffs
  /\ Len(Reported) = MaxDiffs
  /\ file1.data[1] = file2.data[1]

\* C7: with different line counts compare_files returns false right after
\* the length check: it reports the two lengths and no line difference.
C7_LengthCheck ==
  (/\ cmp_pc = "returned" /\ BothFiles
   /\ Len(readlines(file1.data)) # Len(readlines(file2.data))) =>
    /\ cmp_res.ret = FALSE
    /\ ~cmp_res.raised
    /\ cmp_res.out = << <<"Files have different number of lines:",
                          Len(readlines(file1.data)), Len(readlines(file2.data))>> >>

C7_Witness ==
  /\ cmp_pc = "returned" /\ BothFiles
  /\ Len(file1.data) = 2 /\ Len(file2.data) = 1
  /\ file1.data[1] = file2.data[1]
  /\ cmp_res.ret = FALSE

NoticePrinted ==
  \E i \in 1..Len(cmp_res.out) : cmp_res.out[i][1] = "... and more differences."

\* C19: compare_files prints the truncation notice exactly when the two
\* files have the same number of lines and more than 5 mismatching lines,
\* that is when a mismatch was left unreported.
C19_TruncationNotice ==
  cmp_pc = "returned" =>
    (NoticePrinted <=>
       /\ BothFiles
       /\ Len(file1.data) = Len(file2.data)
       /\ Cardinality(Mismatches) > MaxDiffs)

(***************************************************************************)
(* Properties of the extension analyzer                                    *)
(***************************************************************************)
IdsOf(genes) == {genes[i].id : i \in 1..Len(genes)}
GeneOf(genes, id) == genes[CHOOSE i \in 1..Len(genes) : genes[i].id = id]
Analyzed == \E i \in 1..Len(a_stdout) : a_stdout[i][1] = "Found common genes:"

\* C9: the extension length of a common gene is new_end - old_end on the
\* '+' strand, old_start - new_start on the '-' strand and 0 for any other
\* strand of the reference gene; '+' (100,200) -> (100,250) gives 50 and
\* '-' (100,200) -> (60,200) gives 40.
C9_ExtensionLength ==
  /\ \A i \in 1..Len(comparison_results) :
       LET row == comparison_results[i]
           old == GeneOf(ref_genes, row.GeneID)
           new == GeneOf(ext_genes, row.GeneID)
       IN /\ old.strand = "+" => row.ExtensionLength = new.end - old.end
          /\ old.strand = "-" => row.ExtensionLength = old.start - new.start
          /\ old.strand \notin {"+", "-"} => row.ExtensionLength = 0
  /\ ExtensionLength([id |-> "g1", start |-> 100, end |-> 200, strand |-> "+"],
                     [id |-> "g1", start |-> 100, end |-> 250, strand |-> "+"]) = 50
  /\ ExtensionLength([id |-> "g1", start |-> 100, end |-> 200, strand |-> "-"],
                     [id |-> "g1", start |-> 60, end |-> 200, strand |-> "-"]) = 40

C9_Witness ==
  /\ a_pc = "done" /\ Len(comparison_results) = 2
  /\ comparison_results[1].Strand = "-" /\ comparison_results[1].ExtensionLength = 1
  /\ comparison_results[1].NewEnd # comparison_results[1].OldEnd
  /\ comparison_results[2].Strand = "." /\ comparison_results[2].ExtensionLength = 0
  /\ comparison_results[2].NewEnd # comparison_results[2].OldEnd
  /\ GeneOf(ext_genes, comparison_results[1].GeneID).strand = "+"

\* C10: the comparison table has exactly one row per gene identifier present
\* in both annotation sets and none for any other; a row carries the
\* reference gene's start and end as OldStart/OldEnd and the extended gene's
\* as NewStart/NewEnd; rows with zero or negative extension stay in it, in
\* the records and in the table written to ComparisonTable.csv.
C10_Table ==
  /\ Analyzed =>
       /\ {comparison_results[i].GeneID : i \in 1..Len(comparison_results)}
            = IdsOf(ref_genes) \cap IdsOf(ext_genes)
       /\ Len(comparison_results) = Cardinality(IdsOf(ref_genes) \cap IdsOf(ext_genes))
       /\ \A i \in 1..Len(comparison_results) :
            LET row == comparison_results[i]
                old == GeneOf(ref_genes, row.GeneID)
                new == GeneOf(ext_genes, row.GeneID)
            IN /\ row.OldStart = old.start /\ row.OldEnd = old.end
               /\ row.NewStart = new.start /\ row.NewEnd = new.end
  /\ table_file.state = "written" =>
       /\ table_file.rows[1] = Header
       /\ Len(table_file.rows) = 1 + Cardinality(IdsOf(ref_genes) \cap IdsOf(ext_genes))
       /\ \A g \in IdsOf(ref_genes) \cap IdsOf(ext_genes) :
            \E k \in 2..Len(table_file.rows) :
              LET old == GeneOf(ref_genes, g)
                  new == GeneOf(ext_genes, g)
              IN /\ table_file.rows[k][1] = g
                 /\ table_file.rows[k][2] = old.start /\ table_file.rows[k][3] = old.end
                 /\ table_file.rows[k][4] = new.start /\ table_file.rows[k][5] = new.end

C10_Witness ==
  /\ a_pc = "done" /\ table_file.state = "written"
  /\ Len(ref_genes) = 2 /\ Len(ext_genes) = 1
  /\ Len(table_file.rows) = 2
  /\ table_file.rows[2][6] < 0
  /\ table_file.rows[2][2] # table_file.rows[2][4]

\* the statistics st are those of the strictly positive extension lengths
\* of the rows: their number, their median (the middle value, or the mean
\* of the two middle values), their maximum and their minimum; all 0 when
\* there is none
StatisticsOf(st, rows) ==
  LET P == {i \in 1..Len(rows) : rows[i].ExtensionLength > 0}
      L(i) == rows[i].ExtensionLength
      n == Cardinality(P)
      Below(v) == Cardinality({k \in P : L(k) < v})
      UpTo(v) == Cardinality({k \in P : L(k) <= v})
  IN /\ st.total_genes = Len(rows)
     /\ st.num_extended = n
     /\ IF n = 0
        THEN /\ st.median_ext.num = 0
             /\ st.max_ext = 0
             /\ st.min_ext = 0
        ELSE /\ st.max_ext \in {L(i) : i \in P} /\ \A i \in P : L(i) <= st.max_ext
             /\ st.min_ext \in {L(i) : i \in P} /\ \A i \in P : st.min_ext <= L(i)
             /\ \E i, j \in P :
                  /\ Below(L(i)) < (n + 1) \div 2 /\ UpTo(L(i)) >= (n + 1) \div 2
                  /\ Below(L(j)) <= n \div 2 /\ UpTo(L(j)) > n \div 2
                  /\ 2 * st.median_ext.num = st.median_ext.den * (L(i) + L(j))

\* a comparison record with the given extension length
RowWith(len) ==
  [GeneID |-> "g1", OldStart |-> 100, OldEnd |-> 200, NewStart |-> 100,
   NewEnd |-> 200 + len, ExtensionLength |-> len, Strand |-> "+"]

\* C11: the statistics of the summary are taken over the common genes with a
\* strictly positive extension length only; lengths [0, 10, 20, -5] give
\* count 2, median 15, maximum 20, minimum 10; with no such gene all four
\* are 0.
C11_Statistics ==
  /\ a_pc \in {"write_summary", "write_table"} =>
       StatisticsOf(summary, comparison_results)
  /\ summary_file.state = "written" =>
       StatisticsOf(summary_file.summary, comparison_results)
  /\ LET st == Statistics(<<RowWith(0), RowWith(10), RowWith(20), RowWith(-5)>>)
     IN /\ st.num_extended = 2
        /\ st.median_ext.num = 15 * st.median_ext.den
        /\ st.max_ext = 20
        /\ st.min_ext = 10
  /\ LET st == Statistics(<<RowWith(0), RowWith(-5)>>)
     IN /\ st.num_extended = 0 /\ st.median_ext.num = 0
        /\ st.max_ext = 0 /\ st.min_ext = 0

C11_Witness ==
  /\ summary_file.state = "written"
  /\ Len(comparison_results) = 2
  /\ comparison_results[1].ExtensionLength = 0
  /\ comparison_results[2].ExtensionLength = 1
  /\ summary_file.summary.num_extended = 1
  /\ summary_file.summary.min_ext = 1

C11_NoneExtendedWitness ==
  /\ summary_file.state = "written"
  /\ Len(comparison_results) = 2
  /\ comparison_results[1].ExtensionLength < 0
  /\ summary_file.summary.num_extended = 0

APrinted(tag) == \E i \in 1..Len(a_stdout) : a_stdout[i][1] = tag
CommonIds == IdsOf(ref_genes) \cap IdsOf(ext_genes)
NewlyWritten(f) == f.state \in {"written", "truncated"}

\* C12: with no gene identifier in common the analyzer makes no table and
\* no statistics, writes neither report file, reports that no common genes
\* were found and ends normally.
C12_NoCommonGenes ==
  (Analyzed /\ CommonIds = {}) =>
    /\ a_pc = "done" /\ a_exit = 0
    /\ comparison_results = <<>> /\ summary = NoSummary
    /\ ~NewlyWritten(summary_file) /\ ~NewlyWritten(table_file)
    /\ a_stdout[Len(a_stdout) - 1] = <<"Found common genes:", 0>>
    /\ a_stdout[Len(a_stdout)][1] = "No common genes found"

C12_Witness ==
  /\ Analyzed /\ CommonIds = {} /\ a_pc = "done"
  /\ Len(ref_genes) = 1 /\ Len(ext_genes) = 1
  /\ summary_file.state = "stale" /\ table_file.state = "absent"

C17_NoPartialReports ==
  /\ (NewlyWritten(summary_file) \/ NewlyWritten(table_file)) =>
       (Analyzed /\ StatisticsOf(summary, comparison_results))
  /\ (a_pc = "done" /\ a_exit # 0) =>
       (~NewlyWritten(summary_file) /\ ~NewlyWritten(table_file))
  /\ a_pc = "done" =>
       (NewlyWritten(summary_file) <=> NewlyWritten(table_file))

====
